---- MODULE Spec2Model ----
(***************************************************************************)
(* Model of src/streamlit_app/app.py: a Streamlit chat page that keeps the *)
(* conversation in st.session_state.messages and forwards each submitted   *)
(* prompt to the Gemini SDK.                                               *)
(*                                                                         *)
(* Three specifications are defined:                                       *)
(*   Spec        the session: script runs triggered by the chat input, the *)
(*               Clear Chat button, a new browser session, and edits of    *)
(*               the secrets file;                                         *)
(*   SpecProj    the history projection (lines 140-148) as a pure function *)
(*               of the log;                                               *)
(*   SpecModels  model discovery (lines 25-34 and 54-63) as a pure         *)
(*               function of the outcome of the remote listing call.       *)
(***************************************************************************)
EXTENDS Naturals, Sequences, FiniteSets

\* ---------------------------------------------------------------- bounds
MaxTurns == 3
MaxLen == 5
MaxModels == 2

\* ------------------------------------------------------- input alphabets
Prompts == {"Hi", "How are you?"}
Replies == {"Hello", "Fine"}
\* values a key lookup can give: Python None, the empty string, a key
KeyValues == {"None", "", "key"}

VARIABLES
    messages,           \* st.session_state.messages
    gemini_configured,  \* st.session_state.gemini_configured (FALSE models None)
    clientCache,        \* st.cache_resource entry of init_gemini_client
    envKey,             \* os.getenv("GEMINI_API_KEY")
    secretKey,          \* st.secrets.get("GEMINI_API_KEY", None)
    pc,                 \* "Idle", or "Sending" while chat.send_message is out
    request,            \* what start_chat / send_message were given
    \* history variables, recording what the turn flow did
    logBefore,          \* messages before the latest append of line 116
    prompt,             \* the latest submitted text
    outcome,            \* result of the latest turn since the log was last reset
    prevOutcome,        \* result of the turn before it
    remoteCalled,       \* send_message was invoked in the latest turn
    turns,              \* <<prompt, reply>> of the answered turns since the log was empty
    allSucceeded,       \* no turn failed since the log was last empty
    clearPhase,         \* progress of the first turn after a Clear Chat
    clearedLen,         \* length of the log the latest Clear Chat found
    keyAtSubmit,        \* a key could be looked up when the latest prompt arrived
    rejectedEarlier,    \* a prompt of this session had been rejected before the latest one
    everRejected,       \* some prompt of this session was rejected for configuration
    \* SpecProj
    projLog, projOut, projPc,
    \* SpecModels
    listing, sidebarConfigured, lookupRaises, model_options, modelsPc

sessionVars == <<messages, gemini_configured, clientCache, envKey, secretKey, pc,
                 request, logBefore, prompt, outcome, prevOutcome, remoteCalled,
                 turns, allSucceeded, clearPhase, clearedLen, keyAtSubmit,
                 rejectedEarlier, everRejected>>
projVars == <<projLog, projOut, projPc>>
modelsVars == <<listing, sidebarConfigured, lookupRaises, model_options, modelsPc>>
vars == <<sessionVars, projVars, modelsVars>>

\* ------------------------------------------------------------- key lookup
\* Python truthiness of a looked-up key: None and "" are falsy
Truthy(k) == k \notin {"None", ""}

\* os.getenv("GEMINI_API_KEY") or st.secrets.get("GEMINI_API_KEY", None)
LookupKey(env, secret) == IF Truthy(env) THEN env ELSE secret

\* body of init_gemini_client: None without a key, True after genai.configure
InitGeminiClientBody(env, secret) ==
    IF ~Truthy(LookupKey(env, secret)) THEN "None" ELSE "True"

\* @st.cache_resource: the body runs once per process, later calls get the
\* stored value (a stored None included)
InitGeminiClient(cache, env, secret) ==
    IF cache # "unset" THEN cache ELSE InitGeminiClientBody(env, secret)

\* ------------------------------------------------------------ log helpers
UserMessage(text) == [role |-> "user", content |-> text]

AppendUser(log, text) == Append(log, UserMessage(text))

AppendAssistantWrongRole(log, text) == Append(log, [role |-> "model", content |-> text])

AppendAssistant(log, text) == Append(log, [role |-> "assistant", content |-> text])

\* list.pop(): drops the last element
Pop(log) == SubSeq(log, 1, Len(log) - 1)

RollbackUnconfiguredKeeps(log) == log

\* line 123
RollbackUnconfigured(log) == Pop(log)

RollbackOnErrorKeeps(log) == log

RollbackOnErrorClears(log) == <<>>

RollbackOnErrorKeepsFirst(log) == IF Len(log) = 1 THEN log ELSE Pop(log)

\* line 167
RollbackOnError(log) == Pop(log)

ClearChatUnlessShort == IF Len(messages) > 2 THEN <<>> ELSE messages

\* line 101
ClearChat == <<>>

\* ----------------------------------------------------- history projection
\* lines 142-145: one Gemini entry per message, user -> user, assistant -> model
ToGemini(msg) ==
    [role |-> IF msg.role = "user" THEN "user" ELSE "model", parts |-> <<msg.content>>]

\* lines 140-145: messages of any other role are skipped
ChatHistory(log) ==
    LET kept == SelectSeq(log, LAMBDA m : m.role \in {"user", "assistant"})
    IN  [i \in 1..Len(kept) |-> ToGemini(kept[i])]

StartChatHistoryWhole(ch) == ch

StartChatHistoryKeepsSingle(ch) == IF Len(ch) > 1 THEN SubSeq(ch, 1, Len(ch) - 1) ELSE ch

\* line 148: chat_history[:-1] if len(chat_history) > 1 else []
StartChatHistory(ch) == IF Len(ch) > 1 THEN SubSeq(ch, 1, Len(ch) - 1) ELSE <<>>

\* line 151
LastUserMessage(log) == log[Len(log)].content

\* ---------------------------------------------------------------- session
NoRequest == [history |-> <<>>, text |-> ""]

\* state after the first script run of the first session of the process
Init ==
    /\ envKey \in KeyValues
    /\ secretKey \in KeyValues
    /\ clientCache = InitGeminiClient("unset", envKey, secretKey)
    /\ gemini_configured = (clientCache = "True")
    /\ messages = <<>>
    /\ pc = "Idle"
    /\ request = NoRequest
    /\ logBefore = <<>>
    /\ prompt = ""
    /\ outcome = "none"
    /\ prevOutcome = "none"
    /\ remoteCalled = FALSE
    /\ turns = <<>>
    /\ allSucceeded = TRUE
    /\ clearPhase = "none"
    /\ clearedLen = 0
    /\ keyAtSubmit = FALSE
    /\ rejectedEarlier = FALSE
    /\ everRejected = FALSE
    /\ projLog = <<>> /\ projOut = <<>> /\ projPc = "off"
    /\ listing = [raises |-> FALSE, models |-> <<>>]
    /\ sidebarConfigured = FALSE /\ lookupRaises = FALSE
    /\ model_options = [raised |-> FALSE, value |-> <<>>] /\ modelsPc = "off"

\* bookkeeping shared by the three ways a submitted prompt is handled
NoteSubmission(text) ==
    /\ logBefore' = messages
    /\ prompt' = text
    /\ prevOutcome' = outcome
    /\ keyAtSubmit' = Truthy(LookupKey(envKey, secretKey))
    /\ rejectedEarlier' = everRejected

\* lines 114-123: a prompt arrives while gemini_configured is falsy
SubmitUnconfigured ==
    \E text \in Prompts :
        /\ pc = "Idle"
        /\ Len(messages) < 2 * MaxTurns
        /\ ~gemini_configured
        /\ NoteSubmission(text)
        /\ messages' = RollbackUnconfigured(AppendUser(messages, text))
        /\ outcome' = "ConfigurationError"
        /\ remoteCalled' = FALSE
        /\ everRejected' = TRUE
        /\ allSucceeded' = FALSE
        /\ clearPhase' = "none"
        /\ UNCHANGED <<gemini_configured, clientCache, envKey, secretKey, pc,
                       request, turns, clearedLen>>
        /\ UNCHANGED <<projVars, modelsVars>>

\* lines 114-136, 164-167: genai.GenerativeModel(...) raises
SubmitBuildFails ==
    \E text \in Prompts :
        /\ pc = "Idle"
        /\ Len(messages) < 2 * MaxTurns
        /\ gemini_configured
        /\ NoteSubmission(text)
        /\ messages' = RollbackOnError(AppendUser(messages, text))
        /\ outcome' = "GenerationError"
        /\ remoteCalled' = FALSE
        /\ allSucceeded' = FALSE
        /\ clearPhase' = "none"
        /\ UNCHANGED <<gemini_configured, clientCache, envKey, secretKey, pc,
                       request, turns, clearedLen, everRejected>>
        /\ UNCHANGED <<projVars, modelsVars>>

\* lines 114-154: the prompt is appended, the history projected and
\* chat.send_message(last_user_message) invoked
SubmitSend ==
    \E text \in Prompts :
        /\ pc = "Idle"
        /\ Len(messages) < 2 * MaxTurns
        /\ gemini_configured
        /\ NoteSubmission(text)
        /\ messages' = AppendUser(messages, text)
        /\ request' = [history |-> StartChatHistory(ChatHistory(messages')),
                       text |-> LastUserMessage(messages')]
        /\ pc' = "Sending"
        /\ outcome' = "pending"
        /\ remoteCalled' = TRUE
        /\ clearPhase' = IF clearPhase = "cleared" THEN "sending" ELSE "none"
        /\ UNCHANGED <<gemini_configured, clientCache, envKey, secretKey,
                       turns, allSucceeded, clearedLen, everRejected>>
        /\ UNCHANGED <<projVars, modelsVars>>

\* lines 154-163: send_message returns and response.text is readable
GenerationSucceeds ==
    \E reply \in Replies :
        /\ pc = "Sending"
        /\ messages' = AppendAssistant(messages, reply)
        /\ pc' = "Idle"
        /\ outcome' = "Success"
        /\ turns' = Append(turns, <<prompt, reply>>)
        /\ clearPhase' = IF clearPhase = "sending" THEN "answered" ELSE "none"
        /\ UNCHANGED <<gemini_configured, clientCache, envKey, secretKey, request,
                       logBefore, prompt, prevOutcome, remoteCalled, allSucceeded,
                       clearedLen, keyAtSubmit, rejectedEarlier, everRejected>>
        /\ UNCHANGED <<projVars, modelsVars>>

\* lines 154-157, 164-167: send_message, response.text or st.markdown raises
GenerationFails ==
    /\ pc = "Sending"
    /\ messages' = RollbackOnError(messages)
    /\ pc' = "Idle"
    /\ outcome' = "GenerationError"
    /\ allSucceeded' = FALSE
    /\ clearPhase' = "none"
    /\ UNCHANGED <<gemini_configured, clientCache, envKey, secretKey, request,
                   logBefore, prompt, prevOutcome, remoteCalled, turns,
                   clearedLen, keyAtSubmit, rejectedEarlier, everRejected>>
    /\ UNCHANGED <<projVars, modelsVars>>

\* lines 99-102: the Clear Chat button
Clear ==
    /\ pc = "Idle"
    /\ messages' = ClearChat
    /\ turns' = <<>>
    /\ allSucceeded' = TRUE
    /\ clearPhase' = "cleared"
    /\ clearedLen' = Len(messages)
    /\ request' = NoRequest
    /\ logBefore' = <<>>
    /\ prompt' = ""
    /\ outcome' = "none"
    /\ prevOutcome' = "none"
    /\ remoteCalled' = FALSE
    /\ UNCHANGED <<gemini_configured, clientCache, envKey, secretKey, pc,
                   keyAtSubmit, rejectedEarlier, everRejected>>
    /\ UNCHANGED <<projVars, modelsVars>>

\* lines 36-40 in a fresh browser session of the same process
NewSession ==
    /\ pc = "Idle"
    /\ messages' = <<>>
    /\ clientCache' = InitGeminiClient(clientCache, envKey, secretKey)
    /\ gemini_configured' = (clientCache' = "True")
    /\ request' = NoRequest
    /\ logBefore' = <<>>
    /\ prompt' = ""
    /\ outcome' = "none"
    /\ prevOutcome' = "none"
    /\ remoteCalled' = FALSE
    /\ turns' = <<>>
    /\ allSucceeded' = TRUE
    /\ clearPhase' = "none"
    /\ clearedLen' = 0
    /\ keyAtSubmit' = FALSE
    /\ rejectedEarlier' = FALSE
    /\ everRejected' = FALSE
    /\ UNCHANGED <<envKey, secretKey, pc>>
    /\ UNCHANGED <<projVars, modelsVars>>

\* the secrets file is edited between script runs; the process environment
\* read by os.getenv stays as it was at process start
EditSecrets ==
    \E k \in KeyValues :
        /\ pc = "Idle"
        /\ k # secretKey
        /\ secretKey' = k
        /\ UNCHANGED <<messages, gemini_configured, clientCache, envKey, pc,
                       request, logBefore, prompt, outcome, prevOutcome,
                       remoteCalled, turns, allSucceeded, clearPhase, clearedLen,
                       keyAtSubmit, rejectedEarlier, everRejected>>
        /\ UNCHANGED <<projVars, modelsVars>>

Next ==
    \/ SubmitUnconfigured
    \/ SubmitBuildFails
    \/ SubmitSend
    \/ GenerationSucceeds
    \/ GenerationFails
    \/ Clear
    \/ NewSession
    \/ EditSecrets

Spec == Init /\ [][Next]_vars

\* ------------------------------------------------- the projection alone
\* logs the turn flow can hold: user and assistant entries in turn, user
\* first, with or without the new prompt at the end
ReachableLogs ==
    UNION { { [i \in 1..k |-> [role |-> IF i % 2 = 1 THEN "user" ELSE "assistant",
                               content |-> c[i]]] :
              c \in { f \in [1..k -> Prompts \cup Replies] :
                        \A i \in 1..k : f[i] \in (IF i % 2 = 1 THEN Prompts ELSE Replies) } } :
            k \in 0..MaxLen }

SessionAtRest ==
    /\ envKey = "None" /\ secretKey = "None" /\ clientCache = "None"
    /\ gemini_configured = FALSE
    /\ messages = <<>> /\ pc = "Idle" /\ request = NoRequest
    /\ logBefore = <<>> /\ prompt = "" /\ outcome = "none" /\ prevOutcome = "none"
    /\ remoteCalled = FALSE /\ turns = <<>> /\ allSucceeded = TRUE
    /\ clearPhase = "none" /\ clearedLen = 0
    /\ keyAtSubmit = FALSE /\ rejectedEarlier = FALSE
    /\ everRejected = FALSE

InitProj ==
    /\ SessionAtRest
    /\ projLog \in ReachableLogs
    /\ projOut = <<>>
    /\ projPc = "input"
    /\ listing = [raises |-> FALSE, models |-> <<>>]
    /\ sidebarConfigured = FALSE /\ lookupRaises = FALSE
    /\ model_options = [raised |-> FALSE, value |-> <<>>] /\ modelsPc = "off"

\* lines 140-148 applied to projLog
Project ==
    /\ projPc = "input"
    /\ projOut' = StartChatHistory(ChatHistory(projLog))
    /\ projPc' = "done"
    /\ UNCHANGED <<projLog, sessionVars, modelsVars>>

NextProj == Project

SpecProj == InitProj /\ [][NextProj]_vars

\* --------------------------------------------------------- model discovery
\* a model name is a sequence of pieces, "models/" being the prefix piece
ModelNames == { <<"models/", "gemini-pro">>, <<"models/", "embedding-001">>,
                <<"gemini-1.5-flash">> }
MethodSets == { {"generateContent"}, {"embedContent"},
                {"generateContent", "countTokens"}, {} }
ListedModels == [name : ModelNames, supported_generation_methods : MethodSets]

\* outcomes of genai.list_models(): it raises, or yields a list of models
Listings ==
    [raises : BOOLEAN,
     models : UNION { [1..k -> ListedModels] : k \in 0..MaxModels }]

\* lines 31, 34, 61, 63
Fallback == << <<"gemini-pro">>, <<"gemini-1.5-pro-latest">>, <<"gemini-1.5-flash-latest">> >>

\* m.name.replace("models/", "")
StripPrefix(name) == SelectSeq(name, LAMBDA piece : piece # "models/")

\* line 30
Available(models) ==
    LET capable == SelectSeq(models,
                     LAMBDA m : "generateContent" \in m.supported_generation_methods)
    IN  [i \in 1..Len(capable) |-> StripPrefix(capable[i].name)]

GetAvailableModelsNoFallback(l) ==
    IF l.raises
        THEN [raised |-> TRUE, value |-> <<>>]
        ELSE [raised |-> FALSE, value |-> Available(l.models)]

\* lines 25-34; the result says whether the call raised and what it returned
GetAvailableModels(l) ==
    IF l.raises
        THEN [raised |-> FALSE, value |-> Fallback]
        ELSE [raised |-> FALSE,
              value |-> IF Available(l.models) # <<>> THEN Available(l.models)
                                                      ELSE Fallback]

\* lines 54-63
SidebarModelOptions(configured, keyLookupRaises, l) ==
    IF configured
        THEN IF keyLookupRaises \/ GetAvailableModels(l).raised
                 THEN Fallback
                 ELSE GetAvailableModels(l).value
        ELSE Fallback

NoResult == [raised |-> FALSE, value |-> <<>>]

InitModels ==
    /\ SessionAtRest
    /\ projLog = <<>> /\ projOut = <<>> /\ projPc = "off"
    /\ listing \in Listings
    /\ sidebarConfigured \in BOOLEAN
    /\ lookupRaises \in BOOLEAN
    /\ model_options = NoResult
    /\ modelsPc = "input"

\* get_available_models called on its own
CallGetAvailableModels ==
    /\ modelsPc = "input"
    /\ model_options' = GetAvailableModels(listing)
    /\ modelsPc' = "called"
    /\ UNCHANGED <<listing, sidebarConfigured, lookupRaises, sessionVars, projVars>>

\* the sidebar block of a script run
RunSidebar ==
    /\ modelsPc = "input"
    /\ model_options' = [raised |-> FALSE,
                         value |-> SidebarModelOptions(sidebarConfigured, lookupRaises, listing)]
    /\ modelsPc' = "sidebar"
    /\ UNCHANGED <<listing, sidebarConfigured, lookupRaises, sessionVars, projVars>>

NextModels ==
    \/ CallGetAvailableModels
    \/ RunSidebar

SpecModels == InitModels /\ [][NextModels]_vars

\* ================================================================= claims
\* the provider turns the spec expects for a log: user -> "user",
\* assistant -> "model", entry by entry
ProviderTurns(log) ==
    [i \in 1..Len(log) |->
        [role |-> CASE log[i].role = "user" -> "user"
                    [] log[i].role = "assistant" -> "model"
                    [] OTHER -> "unmapped",
         parts |-> <<log[i].content>>]]

HasConsecutiveUsers(log) ==
    \E i \in 1..(Len(log) - 1) : log[i].role = "user" /\ log[i + 1].role = "user"

\* C1: when a configured session's turn ends in a generation error, the
\* session is idle and the log equals, entry for entry, the log as it was
\* before the prompt was appended.
C1_FullRollbackOnFailure ==
    outcome = "GenerationError" => (pc = "Idle" /\ messages = logBefore)

C1_Witness ==
    /\ outcome = "GenerationError"
    /\ remoteCalled
    /\ Len(messages) >= 2

\* C2: a prompt submitted while gemini_configured is falsy ends in a
\* configuration error, without the remote call being attempted, and leaves
\* the log as it was before the submission.
C2_ConfigurationErrorPath ==
    /\ (outcome # "none" /\ ~gemini_configured) => outcome = "ConfigurationError"
    /\ outcome = "ConfigurationError" =>
          /\ ~gemini_configured
          /\ ~remoteCalled
          /\ pc = "Idle"
          /\ messages = logBefore

C2_Witness ==
    /\ outcome = "ConfigurationError"
    /\ rejectedEarlier
    /\ prompt = "Hi"

\* C3: whenever the session is idle every user entry of the log is directly
\* followed by an assistant entry (so the log does not end with a user
\* entry), and every error outcome leaves the session idle.
C3_AnsweredOrAbsent ==
    /\ pc = "Idle" =>
          \A i \in 1..Len(messages) :
              messages[i].role = "user" =>
                  (i < Len(messages) /\ messages[i + 1].role = "assistant")
    /\ outcome \in {"ConfigurationError", "GenerationError"} => pc = "Idle"

C3_Witness ==
    /\ pc = "Idle"
    /\ outcome = "GenerationError"
    /\ prevOutcome = "Success"
    /\ Len(messages) >= 2

\* C4: after n turns that all succeeded, starting from an empty log, the idle
\* log has 2n entries: entry 2i-1 is the user entry with the i-th prompt and
\* entry 2i the assistant entry with the reply returned for it.
C4_SuccessfulTurnsAlternate ==
    (pc = "Idle" /\ allSucceeded) =>
        /\ Len(messages) = 2 * Len(turns)
        /\ \A i \in 1..Len(turns) :
              /\ messages[2 * i - 1] = [role |-> "user", content |-> turns[i][1]]
              /\ messages[2 * i] = [role |-> "assistant", content |-> turns[i][2]]

C4_Witness ==
    /\ pc = "Idle"
    /\ allSucceeded
    /\ Len(turns) >= 2

\* C5: when the remote call is made, the history given to start_chat is the
\* log as it stood before this turn's prompt was appended, mapped entry by
\* entry (same order, same count), and the text sent is the submitted
\* prompt, which is the content of the log's last entry, a user entry.
C5_RequestShape ==
    /\ remoteCalled =>
          /\ request.history = ProviderTurns(logBefore)
          /\ Len(request.history) = Len(logBefore)
          /\ request.text = prompt
    /\ pc = "Sending" =>
          /\ remoteCalled
          /\ messages[Len(messages)] = [role |-> "user", content |-> prompt]
          /\ SubSeq(messages, 1, Len(messages) - 1) = logBefore

C5_Witness ==
    /\ pc = "Sending"
    /\ Len(logBefore) >= 2
    /\ request.text = "How are you?"

\* C6 as stated: the projection leaves out the last entry of a log of more
\* than one entry, and for a log of one entry or none it is the full
\* projection (empty for the empty log, the single mapped entry otherwise).
C6_AsStated ==
    projPc = "done" =>
        /\ Len(projLog) > 1 =>
              projOut = ProviderTurns(SubSeq(projLog, 1, Len(projLog) - 1))
        /\ Len(projLog) <= 1 => projOut = ProviderTurns(projLog)

\* C6 amended: the projection leaves out the last entry of a log of more
\* than one entry, and is empty for a log of one entry or none.
C6_ExcludeLast ==
    projPc = "done" =>
        /\ Len(projLog) > 1 =>
              projOut = ProviderTurns(SubSeq(projLog, 1, Len(projLog) - 1))
        /\ Len(projLog) <= 1 => projOut = <<>>

C6_Witness ==
    /\ projPc = "done"
    /\ Len(projLog) = 1

NoCapableModel(models) ==
    \A i \in 1..Len(models) :
        "generateContent" \notin models[i].supported_generation_methods

\* C7: for every outcome of the listing call get_available_models returns,
\* without raising, a non-empty list, which is the three-name fallback when
\* the call raised or listed no model able to generate text; the sidebar's
\* model_options is non-empty as well.
C7_DiscoveryNeverEmpty ==
    /\ modelsPc = "called" =>
          /\ ~model_options.raised
          /\ Len(model_options.value) > 0
          /\ (listing.raises \/ NoCapableModel(listing.models)) =>
                 (model_options.value = Fallback /\ Len(Fallback) = 3)
    /\ modelsPc = "sidebar" =>
          /\ ~model_options.raised
          /\ Len(model_options.value) > 0

C7_Witness ==
    /\ modelsPc = "called"
    /\ ~listing.raises
    /\ Len(listing.models) > 0
    /\ NoCapableModel(listing.models)

\* C8: Clear Chat leaves the log empty whatever it held, and the successful
\* turn that follows it is sent with an empty history and leaves a log of
\* exactly two entries.
C8_ClearUnconditional ==
    /\ clearPhase = "cleared" => messages = <<>>
    /\ clearPhase = "sending" => (request.history = <<>> /\ Len(messages) = 1)
    /\ clearPhase = "answered" => (request.history = <<>> /\ Len(messages) = 2)

C8_Witness ==
    /\ clearPhase = "answered"
    /\ clearedLen >= 2

\* C9 as stated: a prompt submitted after a turn whose reply failed and was
\* rolled back leaves two consecutive user entries in the log.
C9_AsStated ==
    (pc = "Sending" /\ prevOutcome = "GenerationError") => HasConsecutiveUsers(messages)

\* C9 amended: the log never holds two consecutive user entries, a prompt
\* submitted after a rolled-back turn included.
C9_NoConsecutiveUsers ==
    ~HasConsecutiveUsers(messages)

C9_Witness ==
    /\ pc = "Sending"
    /\ prevOutcome = "GenerationError"
    /\ Len(messages) >= 3

\* C10: in a session where a prompt was rejected for want of a key, a later
\* prompt submitted once a key can be looked up is not rejected with a
\* configuration error again.
C10_RecoverableBySupplyingKey ==
    (outcome = "ConfigurationError" /\ rejectedEarlier) => ~keyAtSubmit

====
